---- MODULE Spec2Model ----
(***************************************************************************)
(* SonioxTranscriptionModel.doGenerate: upload -> submit -> poll -> fetch  *)
(* -> reclaim, as one call of one model instance.                          *)
(*                                                                         *)
(* The repository holds two implementations of doGenerate:                 *)
(*   "model_ts"  packages/soniox/src/soniox-transcription-model.ts         *)
(*               (audioUrl / fileId options, no timeout, no reclaimer)     *)
(*   "part_003"  unnamed/part_003                                          *)
(*               (always uploads, 3 minute timeout, try/finally reclaimer) *)
(* Both are modelled, action by action; `revision` says which one a        *)
(* behaviour runs.  Every `await` is a suspension point: the request is    *)
(* issued by the step that reaches it and the response is a later step.    *)
(***************************************************************************)
EXTENDS Integers, Sequences, FiniteSets, TLC

(* ------------------------------ bounds -------------------------------- *)
\* status queries one call may issue before the model stops following it
MaxPolls == 2
\* tokens in a transcript, where every token sequence is enumerated
MaxTokens == 3
\* milliseconds one clock step adds while the call is suspended
TickMs == 180000
\* the clock stops advancing by itself past this many milliseconds
MaxNow == 360000

(* ------------------------- program constants -------------------------- *)
POLLING_INTERVAL_MS == 1000
timeoutMs == 3 * 60 * 1000

(* ------------------------------ values -------------------------------- *)
\* JavaScript undefined / null (the code normalises null with `?? undefined`)
Undefined == "<undefined>"
\* JavaScript truthiness of a string | undefined
Truthy(s) == s # Undefined /\ s # ""
\* mutant: the fallback of ?? is never taken
Coalesce_left(a, b) == a

\* a ?? b
Coalesce(a, b) == IF a = Undefined THEN b ELSE a

Revisions == {"model_ts", "part_003"}

\* providerOptions.soniox as the caller writes it
AudioUrls == {Undefined, "", "https://soniox.com/media/examples/coffee_shop.mp3"}
CallerFileIds == {Undefined, "", "file-caller"}
RawFlags == {Undefined, "true", "false"}
\* the option records a call is made with: every combination of the two audio
\* source options, and every combination of the two auto-delete flags
CallerOptions ==
  {[audioUrl |-> a, fileId |-> f, autoDeleteTranscription |-> Undefined,
    autoDeleteFile |-> Undefined] : a \in AudioUrls, f \in CallerFileIds}
  \cup
  {[audioUrl |-> Undefined, fileId |-> Undefined, autoDeleteTranscription |-> t,
    autoDeleteFile |-> d] : t \in RawFlags, d \in RawFlags}
\* identifiers the remote service hands out
UploadIds == {"file-123", "file-456"}
JobIds == {"transcription-123", "transcription-456"}
\* config.pollingIntervalMs: <<>> when the provider settings leave it out
PollingIntervals == {<<>>, <<0>>}

VARIABLES
  revision,        \* which implementation of doGenerate runs
  config,          \* SonioxTranscriptionModelConfig: [pollingIntervalMs]
  providerOptions, \* options.providerOptions.soniox, as written by the caller
  aborted,         \* options.abortSignal.aborted
  now,             \* Date.now(), milliseconds
  pc,              \* where the call is suspended
  fileId,          \* let fileId
  uploadResponse,  \* uploadResponse.id
  transcriptionId, \* let transcriptionId (part_003)
  submitResponse,  \* submitResponse: [id, status]
  startTime,       \* const startTime = Date.now() (part_003; clock mark in model_ts)
  statusResponse,  \* let statusResponse
  transcriptResponse, \* value of the transcript fetch: [text, tokens]
  warnings,        \* const warnings: SharedV3Warning[]
  pending,         \* completion of the try block while finally runs
  calls,           \* the requests issued so far, in order (server.calls)
  replies,         \* how each answered request ended, in order: "ok" | "fail"
  outcome,         \* what the caller has received
  concurrent       \* calls running side by side on one model: their locals,
                   \* and the ids the service has handed to each

vars == <<revision, config, providerOptions, aborted, now, pc, fileId, uploadResponse,
          transcriptionId, submitResponse, startTime, statusResponse,
          transcriptResponse, warnings, pending, calls, replies, outcome, concurrent>>

\* everything one call of doGenerate has
callVars == <<revision, config, providerOptions, aborted, now, pc, fileId, uploadResponse,
              transcriptionId, submitResponse, startTime, statusResponse,
              transcriptResponse, warnings, pending, calls, replies, outcome>>

(* --------------------- options schema (zod) --------------------------- *)
\* z.boolean().nullish().default(true): an absent flag parses to true
sonioxTranscriptionProviderOptionsSchema(raw) ==
  [audioUrl |-> raw.audioUrl,
   fileId |-> raw.fileId,
   autoDeleteTranscription |->
     IF raw.autoDeleteTranscription = Undefined THEN TRUE
     ELSE raw.autoDeleteTranscription = "true",
   autoDeleteFile |->
     IF raw.autoDeleteFile = Undefined THEN TRUE
     ELSE raw.autoDeleteFile = "true"]

sonioxOptions == sonioxTranscriptionProviderOptionsSchema(providerOptions)

(* ---------------------------- requests -------------------------------- *)
\* JSON.stringify drops the keys whose value is undefined
JsonBody(rec) == {<<k, rec[k]>> : k \in {f \in DOMAIN rec : rec[f] # Undefined}}

Request(method, path, body) == [method |-> method, path |-> path, body |-> body]

UploadRequest == Request("POST", <<"/v1/files">>, {})
StatusRequest(id) == Request("GET", <<"/v1/transcriptions", id>>, {})
TranscriptRequest(id) == Request("GET", <<"/v1/transcriptions", id, "transcript">>, {})
DeleteRequest(path) == Request("DELETE", path, {})

IsUpload(c) == c.method = "POST" /\ c.path = <<"/v1/files">>
IsSubmit(c) == c.method = "POST" /\ c.path = <<"/v1/transcriptions">>
IsStatus(c) == c.method = "GET" /\ Len(c.path) = 2
IsTranscript(c) == c.method = "GET" /\ Len(c.path) = 3
IsDelete(c) == c.method = "DELETE"
IsDeleteJob(c, id) == c = DeleteRequest(<<"/v1/transcriptions", id>>)
IsDeleteFile(c, id) == c = DeleteRequest(<<"/v1/files", id>>)

\* positions in the request log
Uploads == {i \in 1..Len(calls) : IsUpload(calls[i])}
Submits == {i \in 1..Len(calls) : IsSubmit(calls[i])}
StatusQueries == {i \in 1..Len(calls) : IsStatus(calls[i])}
TranscriptFetches == {i \in 1..Len(calls) : IsTranscript(calls[i])}
Deletes == {i \in 1..Len(calls) : IsDelete(calls[i])}
JobDeletes(id) == {i \in 1..Len(calls) : IsDeleteJob(calls[i], id)}
FileDeletes(id) == {i \in 1..Len(calls) : IsDeleteFile(calls[i], id)}

(* ----------------------------- errors --------------------------------- *)
NoStatus == [status |-> Undefined, error_message |-> Undefined, audio_duration_ms |-> <<>>]

\* the parsed failure payload an APICallError carries (none on other errors)
NoData == [message |-> Undefined, error_type |-> Undefined]

Err(name, message, at, cause) ==
  [name |-> name, message |-> message, at |-> at, cause |-> cause, data |-> NoData]
NoError == Err("", <<>>, "", NoStatus)

\* mutant: || in place of ??, an empty message falls through
errorToMessage_truthy(data) ==
  IF Truthy(data.message) THEN data.message
  ELSE IF Truthy(data.error_type) THEN data.error_type
  ELSE "Soniox API error"

\* sonioxFailedResponseHandler: data.message ?? data.error_type ?? 'Soniox API error'
errorToMessage(data) == Coalesce(data.message, Coalesce(data.error_type, "Soniox API error"))

ErrorPayloads ==
  {[message |-> "Invalid request", error_type |-> "invalid_request"],
   [message |-> Undefined, error_type |-> "invalid_request"],
   [message |-> Undefined, error_type |-> Undefined]}

\* every sonioxErrorDataSchema payload over these values: each field null or
\* absent, empty, or a text
AllErrorPayloads ==
  {[message |-> m, error_type |-> t] :
     m \in {Undefined, "", "Invalid request"}, t \in {Undefined, "", "invalid_request"}}

\* createJsonErrorResponseHandler: APICallError with message: errorToMessage(data)
\* and data: the parsed payload
TransportError(at, data) ==
  [Err("APICallError", <<errorToMessage(data)>>, at, NoStatus) EXCEPT !.data = data]

NoTranscript == [text |-> Undefined, tokens |-> <<>>]

NoResult ==
  [text |-> "", segments |-> <<>>, language |-> Undefined, durationInSeconds |-> <<>>,
   warnings |-> <<>>, tokens |-> <<>>]
NoPending == [kind |-> "none", error |-> NoError, result |-> NoResult]
\* mutant: a failure is swallowed and the function returns an empty result
Throw_swallowed(e) == [kind |-> "return", error |-> NoError, result |-> NoResult]

Throw(e) == [kind |-> "throw", error |-> e, result |-> NoResult]
Return(r) == [kind |-> "return", error |-> NoError, result |-> r]
NoOutcome == [kind |-> "pending", error |-> NoError, result |-> NoResult]

\* mutant: a rejected call still hands over the warnings collected so far
Settle_warningsOnError(p) ==
  IF p.kind = "return"
  THEN [kind |-> "result", error |-> NoError, result |-> p.result]
  ELSE [kind |-> "error", error |-> p.error,
        result |-> [NoResult EXCEPT !.warnings = warnings]]

\* the promise settles with the completion of the function body
Settle(p) ==
  IF p.kind = "return"
  THEN [kind |-> "result", error |-> NoError, result |-> p.result]
  ELSE [kind |-> "error", error |-> p.error, result |-> NoResult]

(* ------------------------ calls side by side -------------------------- *)
\* the calls that run at the same time on one SonioxTranscriptionModel
Calls == {"call-1", "call-2"}

\* the locals of doGenerate at its first statement, with the requests the call
\* has issued and how each was answered
NoLocals ==
  [pc |-> "start", aborted |-> FALSE, fileId |-> Undefined,
   transcriptionId |-> Undefined, submitResponse |-> Undefined, startTime |-> 0,
   statusResponse |-> NoStatus, warnings |-> <<>>, pending |-> NoPending,
   outcome |-> NoOutcome, calls |-> <<>>, replies |-> <<>>]

\* handed: the <<call, id>> pairs of the ids the service returned to each call
NoCalls == [locals |-> [c \in Calls |-> NoLocals], handed |-> {}]

(* ------------------------------ Init ---------------------------------- *)
Init ==
  /\ revision \in Revisions
  /\ config \in [pollingIntervalMs : PollingIntervals]
  /\ providerOptions \in CallerOptions
  /\ aborted = FALSE
  /\ now = 0
  /\ pc = "start"
  /\ fileId = Undefined
  /\ uploadResponse = Undefined
  /\ transcriptionId = Undefined
  /\ submitResponse = [id |-> Undefined, status |-> Undefined]
  /\ startTime = 0
  /\ statusResponse = NoStatus
  /\ transcriptResponse = NoTranscript
  /\ warnings = <<>>
  /\ pending = NoPending
  /\ calls = <<>>
  /\ replies = <<>>
  /\ outcome = NoOutcome
  /\ concurrent = NoCalls


(* ------------------------- remote responses --------------------------- *)
modelId == "stt-async-v3"

\* GET /v1/transcriptions/{id}: status, error_message?, audio_duration_ms?
StatusResponses ==
  {[status |-> "queued", error_message |-> Undefined, audio_duration_ms |-> <<>>],
   [status |-> "provider_defined", error_message |-> Undefined, audio_duration_ms |-> <<>>],
   [status |-> "completed", error_message |-> Undefined, audio_duration_ms |-> <<16079>>],
   [status |-> "completed", error_message |-> Undefined, audio_duration_ms |-> <<>>],
   [status |-> "error", error_message |-> "Audio is too long", audio_duration_ms |-> <<>>],
   [status |-> "error", error_message |-> "", audio_duration_ms |-> <<>>],
   [status |-> "error", error_message |-> Undefined, audio_duration_ms |-> <<>>]}

\* the status field of the creation response (nullish)
InitialStatuses == {"queued", "completed", "error"}

\* a request made through provider-utils fails: a non-success HTTP response goes
\* through sonioxFailedResponseHandler, a fetch rejected by the abort signal
\* surfaces as it is
Failures(at) ==
  {TransportError(at, data) : data \in ErrorPayloads}
    \cup (IF aborted THEN {Err("AbortError", <<"This operation was aborted">>, at, NoStatus)}
          ELSE {})

\* mutant: the loop does not wait between two status queries
pollingInterval_immediate == 0 * POLLING_INTERVAL_MS

pollingInterval ==
  IF config.pollingIntervalMs = <<>> THEN POLLING_INTERVAL_MS
  ELSE config.pollingIntervalMs[1]

\* mutant: the milliseconds are handed over as seconds
durationInSeconds_unscaled(sr) ==
  IF sr.audio_duration_ms = <<>> THEN <<>> ELSE <<sr.audio_duration_ms[1], 1>>

\* audio_duration_ms / 1000 when it is a number, kept as <<numerator, denominator>>
durationInSeconds(sr) ==
  IF sr.audio_duration_ms = <<>> THEN <<>> ELSE <<sr.audio_duration_ms[1], 1000>>

SubmitRequest(body) == Request("POST", <<"/v1/transcriptions">>, body)

(* ------------------------- transcript tokens -------------------------- *)
\* a token of sonioxTranscriptResponseSchema: start_ms, end_ms are <<>> when
\* null or absent and <<n>> when a number; language is nullish
Token(text, start_ms, end_ms, language) ==
  [text |-> text, start_ms |-> start_ms, end_ms |-> end_ms, language |-> language]

\* GET /v1/transcriptions/{id}/transcript: text is nullish, tokens is <<>> when
\* null or absent and <<list>> when an array
TranscriptResponses ==
  {[text |-> "Hello",
    tokens |-> << <<Token("Hel", <<10>>, <<90>>, "en"), Token("lo", <<110>>, <<160>>, "en")>> >>],
   [text |-> "Hola Hi",
    tokens |-> << <<Token("Hola", <<0>>, <<50>>, "es"), Token("Hi", <<>>, <<>>, "en"),
                   Token("!", <<60>>, <<>>, "")>> >>],
   [text |-> "", tokens |-> << <<>> >>],
   [text |-> Undefined, tokens |-> <<>>]}

\* mutant: only the tokens that carry both times are kept
HasTimes(token) == token.start_ms # <<>> /\ token.end_ms # <<>>

tokensOf_timedOnly(tr) ==
  IF tr.tokens = <<>> THEN <<>> ELSE SelectSeq(tr.tokens[1], HasTimes)

\* const tokens = transcriptResponse.tokens ?? []
tokensOf(tr) == IF tr.tokens = <<>> THEN <<>> ELSE tr.tokens[1]

\* mutant: truthiness in place of typeof, a time of 0 ms counts as missing
IsNumber_truthy(x) == x # <<>> /\ x[1] # 0

\* typeof x === 'number'
IsNumber(x) == x # <<>>

\* x / 1000, kept as <<numerator, denominator>>
Div1000(x) == <<x[1], 1000>>

\* tokens.filter(start_ms and end_ms are numbers).map(text, startSecond, endSecond)
RECURSIVE buildSegments(_)
buildSegments(tokens) ==
  IF tokens = <<>> THEN <<>>
  ELSE LET token == Head(tokens)
       IN (IF IsNumber(token.start_ms) /\ IsNumber(token.end_ms)
           THEN <<[text |-> token.text,
                   startSecond |-> Div1000(token.start_ms),
                   endSecond |-> Div1000(token.end_ms)]>>
           ELSE <<>>)
          \o buildSegments(Tail(tokens))

\* Map<string, number>, kept as the sequence of its <<key, value>> entries in
\* insertion order
MapGet(counts, key, default) ==
  IF \E i \in 1..Len(counts) : counts[i][1] = key
  THEN counts[CHOOSE i \in 1..Len(counts) : counts[i][1] = key][2]
  ELSE default

MapSet(counts, key, value) ==
  IF \E i \in 1..Len(counts) : counts[i][1] = key
  THEN [i \in 1..Len(counts) |-> IF counts[i][1] = key THEN <<key, value>> ELSE counts[i]]
  ELSE Append(counts, <<key, value>>)

\* first loop of getLanguageFromTokens: count the truthy language tags
RECURSIVE countLanguages(_, _)
countLanguages(tokens, counts) ==
  IF tokens = <<>> THEN counts
  ELSE LET language == Head(tokens).language
       IN IF ~Truthy(language) THEN countLanguages(Tail(tokens), counts)
          ELSE countLanguages(Tail(tokens),
                              MapSet(counts, language, MapGet(counts, language, 0) + 1))

\* second loop of getLanguageFromTokens: if (count > bestCount)
RECURSIVE pickBestLanguage(_, _, _)
pickBestLanguage(counts, bestLanguage, bestCount) ==
  IF counts = <<>> THEN bestLanguage
  ELSE IF Head(counts)[2] > bestCount
  THEN pickBestLanguage(Tail(counts), Head(counts)[1], Head(counts)[2])
  ELSE pickBestLanguage(Tail(counts), bestLanguage, bestCount)

getLanguageFromTokens(tokens) ==
  pickBestLanguage(countLanguages(tokens, <<>>), Undefined, 0)

(* ============ soniox-transcription-model.ts : doGenerate ============== *)
ConfigError == Err("Error", <<"Provide either audioUrl or fileId, not both.">>, "options", NoStatus)
AbortedError == Err("Error", <<"Transcription request was aborted">>, "poll", NoStatus)

M_JobFailed(sr) ==
  Err("Error", <<"Transcription failed: ", Coalesce(sr.error_message, "Unknown error")>>,
      "poll", NoStatus)

\* mutant: the body is built without the file id
M_body_noFileId(audioUrl, fid) ==
  JsonBody([model |-> modelId, audio_url |-> audioUrl, file_id |-> Undefined])

\* const body: audio_url: audioUrl ?? undefined, file_id: fileId ?? undefined
M_body(audioUrl, fid) ==
  JsonBody([model |-> modelId, audio_url |-> audioUrl, file_id |-> fid])

\* the returned object: language: undefined
M_Result(tr, sr, ws) ==
  [text |-> Coalesce(tr.text, ""),
   segments |-> buildSegments(tokensOf(tr)),
   language |-> Undefined,
   durationInSeconds |-> durationInSeconds(sr),
   warnings |-> ws,
   tokens |-> tokensOf(tr)]

\* mutant: a status query that failed is tried again after the delay
M_Complete_retryPoll(p) ==
  IF p.kind = "throw" /\ p.error.name = "APICallError" /\ p.error.at = "poll"
  THEN pc' = "delay" /\ outcome' = outcome
  ELSE pc' = "done" /\ outcome' = Settle(p)

\* a throw or a return of this revision settles the promise at once
M_Complete(p) ==
  /\ pc' = "done"
  /\ outcome' = Settle(p)

\* mutant: the status of the creation response is acted on before any query
M_LoopTop_initialStatus(id) ==
  IF submitResponse'.status = "completed" /\ StatusQueries = {}
  THEN /\ calls' = Append(calls, TranscriptRequest(id))
       /\ pc' = "fetch"
       /\ outcome' = outcome
  ELSE /\ Cardinality(StatusQueries) < MaxPolls
       /\ calls' = Append(calls, StatusRequest(id))
       /\ pc' = "poll"
       /\ outcome' = outcome

\* top of while (true): the abort check, then the status query
M_LoopTop(id) ==
  IF aborted
  THEN M_Complete(Throw(AbortedError)) /\ calls' = calls
  ELSE /\ Cardinality(StatusQueries) < MaxPolls
       /\ calls' = Append(calls, StatusRequest(id))
       /\ pc' = "poll"
       /\ outcome' = outcome

\* parse the options, reject audioUrl together with fileId, then upload or submit
M_doGenerate ==
  /\ revision = "model_ts" /\ pc = "start"
  /\ LET audioUrl == sonioxOptions.audioUrl
         fileIdOverride == sonioxOptions.fileId
     IN IF Truthy(audioUrl) /\ Truthy(fileIdOverride)
        THEN M_Complete(Throw(ConfigError)) /\ UNCHANGED <<fileId, calls>>
        ELSE /\ fileId' = fileIdOverride
             /\ outcome' = outcome
             /\ IF ~Truthy(audioUrl) /\ ~Truthy(fileIdOverride)
                THEN calls' = Append(calls, UploadRequest) /\ pc' = "upload"
                ELSE /\ calls' = Append(calls, SubmitRequest(M_body(audioUrl, fileIdOverride)))
                     /\ pc' = "submit"
  /\ UNCHANGED <<concurrent, transcriptResponse, revision, config, providerOptions, aborted, now, uploadResponse,
                 transcriptionId, submitResponse, startTime, statusResponse,
                 warnings, pending, replies>>

M_uploadResponse ==
  /\ revision = "model_ts" /\ pc = "upload"
  /\ \/ \E id \in UploadIds :
          /\ replies' = Append(replies, "ok")
          /\ uploadResponse' = id
          /\ fileId' = id
          /\ calls' = Append(calls, SubmitRequest(M_body(sonioxOptions.audioUrl, id)))
          /\ pc' = "submit"
          /\ outcome' = outcome
     \/ \E e \in Failures("upload") :
          /\ replies' = Append(replies, "fail")
          /\ M_Complete(Throw(e)) /\ UNCHANGED <<uploadResponse, fileId, calls>>
  /\ UNCHANGED <<concurrent, transcriptResponse, revision, config, providerOptions, aborted, now, transcriptionId,
                 submitResponse, startTime, statusResponse, warnings, pending>>

M_submitResponse ==
  /\ revision = "model_ts" /\ pc = "submit"
  /\ \/ \E id \in JobIds, st \in InitialStatuses :
          /\ replies' = Append(replies, "ok")
          /\ submitResponse' = [id |-> id, status |-> st]
          /\ startTime' = now
          /\ M_LoopTop(id)
     \/ \E e \in Failures("submit") :
          /\ replies' = Append(replies, "fail")
          /\ M_Complete(Throw(e)) /\ UNCHANGED <<submitResponse, startTime, calls>>
  /\ UNCHANGED <<concurrent, transcriptResponse, revision, config, providerOptions, aborted, now, fileId, uploadResponse,
                 transcriptionId, statusResponse, warnings, pending>>

M_statusResponse ==
  /\ revision = "model_ts" /\ pc = "poll"
  /\ \/ \E sr \in StatusResponses :
          /\ replies' = Append(replies, "ok")
          /\ statusResponse' = sr
          /\ IF sr.status = "completed"
             THEN /\ calls' = Append(calls, TranscriptRequest(submitResponse.id))
                  /\ pc' = "fetch"
                  /\ outcome' = outcome
             ELSE IF sr.status = "error"
             THEN M_Complete(Throw(M_JobFailed(sr))) /\ calls' = calls
             ELSE pc' = "delay" /\ UNCHANGED <<calls, outcome>>
     \/ \E e \in Failures("poll") :
          /\ replies' = Append(replies, "fail")
          /\ M_Complete(Throw(e)) /\ UNCHANGED <<statusResponse, calls>>
  /\ UNCHANGED <<concurrent, transcriptResponse, revision, config, providerOptions, aborted, now, fileId, uploadResponse,
                 transcriptionId, submitResponse, startTime, warnings, pending>>

\* await delay(pollingInterval), then the next iteration
M_delay ==
  /\ revision = "model_ts" /\ pc = "delay"
  /\ now' = now + pollingInterval
  /\ M_LoopTop(submitResponse.id)
  /\ UNCHANGED <<concurrent, transcriptResponse, replies, revision, config, providerOptions, aborted, fileId, uploadResponse,
                 transcriptionId, submitResponse, startTime, statusResponse,
                 warnings, pending>>

M_transcriptResponse ==
  /\ revision = "model_ts" /\ pc = "fetch"
  /\ \/ \E tr \in TranscriptResponses :
          /\ replies' = Append(replies, "ok")
          /\ transcriptResponse' = tr
          /\ M_Complete(Return(M_Result(tr, statusResponse, warnings)))
     \/ \E e \in Failures("fetch") :
          /\ replies' = Append(replies, "fail")
          /\ transcriptResponse' = transcriptResponse
          /\ M_Complete(Throw(e))
  /\ UNCHANGED <<concurrent, revision, config, providerOptions, aborted, now, fileId, uploadResponse,
                 transcriptionId, submitResponse, startTime, statusResponse,
                 warnings, pending, calls>>


(* ===================== part_003 : tryDeleteResource =================== *)
\* what fetch(url, {method: 'DELETE'}) does: resolves ok, resolves with a
\* non-success status (whose text() yields a body, nothing, or rejects), or rejects
DeleteResponses ==
  {[kind |-> "ok", status |-> "204", statusText |-> "No Content", text |-> ""],
   [kind |-> "http", status |-> "500", statusText |-> "Internal Server Error", text |-> "boom"],
   [kind |-> "http", status |-> "502", statusText |-> "Bad Gateway", text |-> "<rejects>"],
   [kind |-> "reject", status |-> "", statusText |-> "", text |-> "fetch failed"]}

DeleteFailed(resp) == resp.kind # "ok"

\* the message of the error caught in tryDeleteResource
DeleteErrorMessage(resp) ==
  IF resp.kind = "reject" THEN <<resp.text>>
  ELSE LET responseText == IF resp.text = "<rejects>" THEN "" ELSE resp.text
       IN <<"HTTP ", resp.status, " ", resp.statusText>>
            \o (IF Truthy(responseText) THEN <<": ", responseText>> ELSE <<>>)

DeleteWarning(description, resp) ==
  [type |-> "other",
   message |-> <<"Failed to auto-delete ">> \o description \o <<": ">>
                 \o DeleteErrorMessage(resp)]

\* mutant: no try/catch around the DELETE, its failure is thrown
tryDeleteResource_rethrows(ws, description, resp) ==
  [warnings |-> ws,
   thrown |-> IF resp.kind = "ok" THEN NoError
              ELSE Err("Error", DeleteErrorMessage(resp), "delete", NoStatus)]

\* tryDeleteResource when the DELETE got `resp`: the warnings array afterwards
\* and what the method throws (NoError: it returns normally).  Everything that
\* can fail sits inside try { } and the catch clause only pushes a warning.
tryDeleteResource(ws, description, resp) ==
  [warnings |-> IF resp.kind = "ok" THEN ws
                ELSE Append(ws, DeleteWarning(description, resp)),
   thrown |-> NoError]

(* ========================= part_003 : doGenerate ====================== *)
\* mutant: the provider's error_message is dropped from the job-failure error
R_JobFailed_generic(sr) ==
  Err("TranscriptionJobFailed", <<"Transcription failed: ", "Unknown error">>, "poll", sr)

R_JobFailed(sr) ==
  Err("TranscriptionJobFailed",
      <<"Transcription failed: ", Coalesce(sr.error_message, "Unknown error")>>, "poll", sr)

\* mutant: the timeout error is raised without its cause
R_TimedOut_noCause(sr) ==
  Err("TranscriptionJobPollingTimedOut", <<"Transcription job polling timed out">>, "poll",
      NoStatus)

R_TimedOut(sr) ==
  Err("TranscriptionJobPollingTimedOut", <<"Transcription job polling timed out">>, "poll", sr)

\* the returned object: language from the tokens
R_Result(tr, sr, ws) ==
  [text |-> Coalesce(tr.text, ""),
   segments |-> buildSegments(tokensOf(tr)),
   language |-> getLanguageFromTokens(tokensOf(tr)),
   durationInSeconds |-> durationInSeconds(sr),
   warnings |-> ws,
   tokens |-> tokensOf(tr)]

\* const body: file_id: fileId, no audio_url key
R_body(fid) == JsonBody([model |-> modelId, file_id |-> fid])

\* mutant: the returned object holds a copy of the warnings taken at `return`
R_Alias_copy(p, ws) == p

\* the returned object holds the warnings array itself, not a copy of it
R_Alias(p, ws) ==
  IF p.kind = "return" THEN [p EXCEPT !.result.warnings = ws] ELSE p

\* await inside finally: an exception thrown there replaces the completion of
\* the try block
R_Await(p, r) == IF r.thrown = NoError THEN p ELSE Throw(r.thrown)

\* mutant: the file's deletion is left out once the job's deletion has run
R_FinallyFile_skipped(p, fid) ==
  /\ calls' = calls
  /\ pc' = "done"
  /\ outcome' = Settle(p)

\* mutant: the file's deletion is started but not awaited
R_FinallyFile_notAwaited(p, fid) ==
  /\ calls' = IF Truthy(fid) THEN Append(calls, DeleteRequest(<<"/v1/files", fid>>))
              ELSE calls
  /\ pc' = "done"
  /\ outcome' = Settle(p)

\* finally, second half: if (fileId) await tryDeleteResource(file), then settle
R_FinallyFile(p, fid) ==
  IF Truthy(fid)
  THEN /\ calls' = Append(calls, DeleteRequest(<<"/v1/files", fid>>))
       /\ pc' = "deleteFile"
       /\ outcome' = outcome
  ELSE /\ calls' = calls
       /\ pc' = "done"
       /\ outcome' = Settle(p)

\* mutant: the job's deletion is issued whether or not there is a job id
R_Finally_unconditional(p, tid, fid) ==
  /\ pending' = p
  /\ calls' = Append(calls, DeleteRequest(<<"/v1/transcriptions", tid>>))
  /\ pc' = "deleteJob"
  /\ outcome' = outcome

\* mutant: the two deletions are started together
R_Finally_parallel(p, tid, fid) ==
  /\ pending' = p
  /\ IF Truthy(tid) /\ Truthy(fid)
     THEN /\ calls' = calls \o <<DeleteRequest(<<"/v1/transcriptions", tid>>),
                                  DeleteRequest(<<"/v1/files", fid>>)>>
          /\ pc' = "deleteJob"
          /\ outcome' = outcome
     ELSE R_FinallyFile(p, fid)

\* finally, entered with the completion p of the try block
R_Finally(p, tid, fid) ==
  /\ pending' = p
  /\ IF Truthy(tid)
     THEN /\ calls' = Append(calls, DeleteRequest(<<"/v1/transcriptions", tid>>))
          /\ pc' = "deleteJob"
          /\ outcome' = outcome
     ELSE R_FinallyFile(p, fid)

\* top of while (true): the timeout check, the abort check, then the status query
R_LoopTop(id, start, clock) ==
  IF clock - start > timeoutMs
  THEN R_Finally(Throw(R_TimedOut(statusResponse)), id, fileId)
  ELSE IF aborted
  THEN R_Finally(Throw(AbortedError), id, fileId)
  ELSE /\ Cardinality(StatusQueries) < MaxPolls
       /\ calls' = Append(calls, StatusRequest(id))
       /\ pc' = "poll"
       /\ UNCHANGED <<pending, outcome>>

\* parse the options and upload the audio, whatever the options say
R_doGenerate ==
  /\ revision = "part_003" /\ pc = "start"
  /\ calls' = Append(calls, UploadRequest)
  /\ pc' = "upload"
  /\ UNCHANGED <<concurrent, transcriptResponse, replies, revision, config, providerOptions, aborted, now, fileId, uploadResponse,
                 transcriptionId, submitResponse, startTime, statusResponse,
                 warnings, pending, outcome>>

R_uploadResponse ==
  /\ revision = "part_003" /\ pc = "upload"
  /\ \/ \E id \in UploadIds :
          /\ replies' = Append(replies, "ok")
          /\ uploadResponse' = id
          /\ fileId' = id
          /\ calls' = Append(calls, SubmitRequest(R_body(id)))
          /\ pc' = "submit"
          /\ UNCHANGED <<pending, outcome>>
     \/ \E e \in Failures("upload") :
          /\ replies' = Append(replies, "fail")
          /\ UNCHANGED <<uploadResponse, fileId>>
          /\ R_Finally(Throw(e), transcriptionId, fileId)
  /\ UNCHANGED <<concurrent, transcriptResponse, revision, config, providerOptions, aborted, now, transcriptionId,
                 submitResponse, startTime, statusResponse, warnings>>

R_submitResponse ==
  /\ revision = "part_003" /\ pc = "submit"
  /\ \/ \E id \in JobIds, st \in InitialStatuses :
          /\ replies' = Append(replies, "ok")
          /\ submitResponse' = [id |-> id, status |-> st]
          /\ transcriptionId' = id
          /\ startTime' = now
          /\ R_LoopTop(id, now, now)
     \/ \E e \in Failures("submit") :
          /\ replies' = Append(replies, "fail")
          /\ UNCHANGED <<submitResponse, transcriptionId, startTime>>
          /\ R_Finally(Throw(e), transcriptionId, fileId)
  /\ UNCHANGED <<concurrent, transcriptResponse, revision, config, providerOptions, aborted, now, fileId, uploadResponse,
                 statusResponse, warnings>>

R_statusResponse ==
  /\ revision = "part_003" /\ pc = "poll"
  /\ \/ \E sr \in StatusResponses :
          /\ replies' = Append(replies, "ok")
          /\ statusResponse' = sr
          /\ IF sr.status = "completed"
             THEN /\ calls' = Append(calls, TranscriptRequest(submitResponse.id))
                  /\ pc' = "fetch"
                  /\ UNCHANGED <<pending, outcome>>
             ELSE IF sr.status = "error"
             THEN R_Finally(Throw(R_JobFailed(sr)), transcriptionId, fileId)
             ELSE pc' = "delay" /\ UNCHANGED <<calls, pending, outcome>>
     \/ \E e \in Failures("poll") :
          /\ replies' = Append(replies, "fail")
          /\ UNCHANGED statusResponse
          /\ R_Finally(Throw(e), transcriptionId, fileId)
  /\ UNCHANGED <<concurrent, transcriptResponse, revision, config, providerOptions, aborted, now, fileId, uploadResponse,
                 transcriptionId, submitResponse, startTime, warnings>>

\* await delay(pollingInterval), then the next iteration
R_delay ==
  /\ revision = "part_003" /\ pc = "delay"
  /\ now' = now + pollingInterval
  /\ R_LoopTop(submitResponse.id, startTime, now')
  /\ UNCHANGED <<concurrent, transcriptResponse, replies, revision, config, providerOptions, aborted, fileId, uploadResponse,
                 transcriptionId, submitResponse, startTime, statusResponse, warnings>>

R_transcriptResponse ==
  /\ revision = "part_003" /\ pc = "fetch"
  /\ \/ \E tr \in TranscriptResponses :
          /\ replies' = Append(replies, "ok")
          /\ transcriptResponse' = tr
          /\ R_Finally(Return(R_Result(tr, statusResponse, warnings)),
                       transcriptionId, fileId)
     \/ \E e \in Failures("fetch") :
          /\ replies' = Append(replies, "fail")
          /\ transcriptResponse' = transcriptResponse
          /\ R_Finally(Throw(e), transcriptionId, fileId)
  /\ UNCHANGED <<concurrent, revision, config, providerOptions, aborted, now, fileId, uploadResponse,
                 transcriptionId, submitResponse, startTime, statusResponse, warnings>>

\* the DELETE of the job answers; then the file's turn
R_deleteTranscriptionResponse ==
  /\ revision = "part_003" /\ pc = "deleteJob"
  /\ \E resp \in DeleteResponses :
       LET r == tryDeleteResource(warnings, <<"transcription ", transcriptionId>>, resp)
           p == R_Await(R_Alias(pending, r.warnings), r)
       IN /\ replies' = Append(replies, IF DeleteFailed(resp) THEN "fail" ELSE "ok")
          /\ warnings' = r.warnings
          /\ pending' = p
          /\ IF r.thrown = NoError
             THEN R_FinallyFile(p, fileId)
             ELSE pc' = "done" /\ outcome' = Settle(p) /\ calls' = calls
  /\ UNCHANGED <<concurrent, transcriptResponse, revision, config, providerOptions, aborted, now, fileId, uploadResponse,
                 transcriptionId, submitResponse, startTime, statusResponse>>

\* the DELETE of the file answers; the call settles
R_deleteFileResponse ==
  /\ revision = "part_003" /\ pc = "deleteFile"
  /\ \E resp \in DeleteResponses :
       LET r == tryDeleteResource(warnings, <<"file ", fileId>>, resp)
           p == R_Await(R_Alias(pending, r.warnings), r)
       IN /\ replies' = Append(replies, IF DeleteFailed(resp) THEN "fail" ELSE "ok")
          /\ warnings' = r.warnings
          /\ pending' = p
          /\ pc' = "done"
          /\ outcome' = Settle(p)
  /\ UNCHANGED <<concurrent, transcriptResponse, revision, config, providerOptions, aborted, now, fileId, uploadResponse,
                 transcriptionId, submitResponse, startTime, statusResponse, calls>>

(* ---------------------------- environment ----------------------------- *)
\* the call is in its poll loop: a status query is out, or the delay is running
Polling == pc \in {"poll", "delay"}

\* time passes while the call is suspended.  The code reads the clock only as
\* Date.now() - startTime at the top of a poll iteration, which follows a delay,
\* so the time a status query took is counted into the delay after it
Tick ==
  /\ pc = "delay"
  /\ now + TickMs <= MaxNow
  /\ now' = now + TickMs
  /\ UNCHANGED <<concurrent, revision, config, providerOptions, aborted, pc, fileId, uploadResponse,
                 transcriptionId, submitResponse, startTime, statusResponse,
                 transcriptResponse, warnings, pending, calls, replies, outcome>>

\* the caller aborts its signal; the signal is not read once finally is entered
Abort ==
  /\ pc \in {"start", "upload", "submit", "poll", "delay", "fetch"}
  /\ ~aborted
  /\ aborted' = TRUE
  /\ UNCHANGED <<concurrent, revision, config, providerOptions, now, pc, fileId, uploadResponse,
                 transcriptionId, submitResponse, startTime, statusResponse,
                 transcriptResponse, warnings, pending, calls, replies, outcome>>

Next ==
  \/ M_doGenerate
  \/ M_uploadResponse
  \/ M_submitResponse
  \/ M_statusResponse
  \/ M_delay
  \/ M_transcriptResponse
  \/ R_doGenerate
  \/ R_uploadResponse
  \/ R_submitResponse
  \/ R_statusResponse
  \/ R_delay
  \/ R_transcriptResponse
  \/ R_deleteTranscriptionResponse
  \/ R_deleteFileResponse
  \/ Tick
  \/ Abort

Spec == Init /\ [][Next]_vars

\* every step of the call itself, and the passing of time
Proceed ==
  \/ M_doGenerate \/ M_uploadResponse \/ M_submitResponse \/ M_statusResponse
  \/ M_delay \/ M_transcriptResponse
  \/ R_doGenerate \/ R_uploadResponse \/ R_submitResponse \/ R_statusResponse
  \/ R_delay \/ R_transcriptResponse
  \/ R_deleteTranscriptionResponse \/ R_deleteFileResponse
  \/ Tick

\* every awaited network call and delay returns and the clock keeps running;
\* nothing makes the caller abort
FairSpec == Spec /\ WF_vars(Proceed)

Done == pc = "done"

(* ------------- the pure parts, over every bounded input --------------- *)
\* text, start_ms, end_ms of a token: two timed tokens, and one for each way a
\* time can be missing
TokenSpans ==
  {<<"Hel", <<0>>, <<90>> >>, <<"lo", <<110>>, <<160>> >>, <<"Hi", <<>>, <<>> >>,
   <<"He", <<0>>, <<>> >>, <<"o", <<>>, <<90>> >>}
LanguageTags == {Undefined, "", "en", "sl"}

AllTokens == {Token(sp[1], sp[2], sp[3], l) : sp \in TokenSpans, l \in LanguageTags}

AllTokenSequences == UNION {[1..n -> AllTokens] : n \in 0..MaxTokens}

AllTranscriptResponses ==
  {[text |-> t, tokens |-> <<>>] : t \in {Undefined, "", "Hello"}}
    \cup {[text |-> "Hello", tokens |-> <<seq>>] : seq \in AllTokenSequences}

\* the state in which the transcript fetch has just answered
PureInit ==
  /\ revision \in Revisions
  /\ config = [pollingIntervalMs |-> <<>>]
  /\ providerOptions = [audioUrl |-> Undefined, fileId |-> Undefined,
                        autoDeleteTranscription |-> Undefined, autoDeleteFile |-> Undefined]
  /\ aborted = FALSE
  /\ now = 0
  /\ pc = "fetched"
  /\ fileId = Undefined
  /\ uploadResponse = Undefined
  /\ transcriptionId = Undefined
  /\ submitResponse = [id |-> Undefined, status |-> Undefined]
  /\ startTime = 0
  /\ statusResponse \in {sr \in StatusResponses : sr.status = "completed"}
  /\ transcriptResponse \in AllTranscriptResponses
  /\ warnings = <<>>
  /\ pending = NoPending
  /\ calls = <<>>
  /\ replies = <<>>
  /\ outcome = NoOutcome
  /\ concurrent = NoCalls

\* the fetch succeeded: the returned object is built from its value
P_result ==
  /\ pc = "fetched"
  /\ pc' = "done"
  /\ outcome' = Settle(Return(IF revision = "model_ts"
                              THEN M_Result(transcriptResponse, statusResponse, warnings)
                              ELSE R_Result(transcriptResponse, statusResponse, warnings)))
  /\ UNCHANGED <<concurrent, revision, config, providerOptions, aborted, now, fileId, uploadResponse,
                 transcriptionId, submitResponse, startTime, statusResponse,
                 transcriptResponse, warnings, pending, calls, replies>>

\* the fetch got a non-success response: sonioxFailedResponseHandler builds the
\* error from the parsed payload
P_failedResponse ==
  /\ pc = "fetched"
  /\ transcriptResponse = NoTranscript
  /\ \E data \in AllErrorPayloads :
       /\ pc' = "done"
       /\ outcome' = Settle(Throw(TransportError("fetch", data)))
  /\ UNCHANGED <<concurrent, revision, config, providerOptions, aborted, now, fileId, uploadResponse,
                 transcriptionId, submitResponse, startTime, statusResponse,
                 transcriptResponse, warnings, pending, calls, replies>>

PureNext ==
  \/ P_result
  \/ P_failedResponse

PureSpec == PureInit /\ [][PureNext]_vars


(* ---------- concurrent calls of doGenerate on one model --------------- *)
\* Each call is the doGenerate of the revision, run on its own locals; the
\* calls share the model's config and the remote service, which hands out an
\* id once.  The calls are made without soniox provider options and none of
\* them spends three minutes polling (the clock stays at `now`).

\* mutant: fileId is a field of the model, written by whichever call uploaded
K_fileId_shared(c) ==
  LET written == {concurrent.locals[d].fileId : d \in Calls} \ {Undefined}
  IN IF written = {} THEN Undefined ELSE CHOOSE id \in written : TRUE

\* let fileId: a local of the call
K_fileId(c) == concurrent.locals[c].fileId

K_Handed == {h[2] : h \in concurrent.handed}

\* what the service answers in this part
K_StatusResponses ==
  {sr \in StatusResponses : sr.audio_duration_ms # <<>> \/ sr.error_message = "Audio is too long"
                              \/ sr.status = "queued"}
K_TranscriptResponse == CHOOSE tr \in TranscriptResponses : tr.text = "Hello"
K_DeleteResponses == {resp \in DeleteResponses : resp.status \in {"204", "500"}}
K_Failure(at) == TransportError(at, [message |-> "Invalid request", error_type |-> "invalid_request"])

K_Polls(l) == Cardinality({i \in DOMAIN l.calls : IsStatus(l.calls[i])})

\* finally, second half, on the locals l of call c
K_FinallyFile(c, l, p) ==
  IF revision = "part_003" /\ Truthy(K_fileId(c))
  THEN [l EXCEPT !.pc = "deleteFile",
                 !.calls = Append(@, DeleteRequest(<<"/v1/files", K_fileId(c)>>))]
  ELSE [l EXCEPT !.pc = "done", !.outcome = Settle(p)]

\* the call's try block completes with p: part_003 enters finally, the other
\* revision settles at once
K_Finally(c, l, p) ==
  IF revision = "part_003" /\ Truthy(l.transcriptionId)
  THEN [l EXCEPT !.pending = p, !.pc = "deleteJob",
                 !.calls = Append(@, DeleteRequest(<<"/v1/transcriptions", l.transcriptionId>>))]
  ELSE K_FinallyFile(c, [l EXCEPT !.pending = p], p)

\* top of while (true) on the locals l of call c
K_LoopTop(c, l) ==
  IF revision = "part_003" /\ now - l.startTime > timeoutMs
  THEN K_Finally(c, l, Throw(R_TimedOut(l.statusResponse)))
  ELSE IF l.aborted
  THEN K_Finally(c, l, Throw(AbortedError))
  ELSE [l EXCEPT !.pc = "poll", !.calls = Append(@, StatusRequest(l.submitResponse))]

K_Set(c, l) ==
  /\ concurrent' = [concurrent EXCEPT !.locals[c] = l]
  /\ UNCHANGED callVars

K_Hand(c, id, l) ==
  /\ concurrent' = [concurrent EXCEPT !.locals[c] = l, !.handed = @ \cup {<<c, id>>}]
  /\ UNCHANGED callVars

K_doGenerate(c) ==
  LET l == concurrent.locals[c]
  IN /\ l.pc = "start"
     /\ K_Set(c, [l EXCEPT !.pc = "upload", !.calls = Append(@, UploadRequest)])

K_uploadResponse(c) ==
  LET l == concurrent.locals[c]
  IN /\ l.pc = "upload"
     /\ \/ \E id \in UploadIds \ K_Handed :
             K_Hand(c, id,
                    [l EXCEPT !.replies = Append(@, "ok"),
                              !.fileId = id,
                              !.pc = "submit",
                              !.calls = Append(@, SubmitRequest(
                                  IF revision = "part_003" THEN R_body(id)
                                  ELSE M_body(Undefined, id)))])
        \/ K_Set(c, K_Finally(c, [l EXCEPT !.replies = Append(@, "fail")],
                              Throw(K_Failure("upload"))))

K_submitResponse(c) ==
  LET l == concurrent.locals[c]
  IN /\ l.pc = "submit"
     /\ \/ \E id \in JobIds \ K_Handed :
             K_Hand(c, id,
                    K_LoopTop(c, [l EXCEPT !.replies = Append(@, "ok"),
                                           !.submitResponse = id,
                                           !.transcriptionId = id,
                                           !.startTime = now]))
        \/ K_Set(c, K_Finally(c, [l EXCEPT !.replies = Append(@, "fail")],
                              Throw(K_Failure("submit"))))

K_statusResponse(c) ==
  LET l == concurrent.locals[c]
  IN /\ l.pc = "poll"
     /\ \/ \E sr \in K_StatusResponses :
             LET l2 == [l EXCEPT !.replies = Append(@, "ok"), !.statusResponse = sr]
             IN K_Set(c, IF sr.status = "completed"
                         THEN [l2 EXCEPT !.pc = "fetch",
                                         !.calls = Append(@, TranscriptRequest(l.submitResponse))]
                         ELSE IF sr.status = "error"
                         THEN K_Finally(c, l2, Throw(IF revision = "part_003"
                                                     THEN R_JobFailed(sr)
                                                     ELSE M_JobFailed(sr)))
                         ELSE [l2 EXCEPT !.pc = "delay"])
        \/ K_Set(c, K_Finally(c, [l EXCEPT !.replies = Append(@, "fail")],
                              Throw(K_Failure("poll"))))

\* await delay(pollingInterval), then the next iteration
K_delay(c) ==
  LET l == concurrent.locals[c]
  IN /\ l.pc = "delay"
     /\ l.aborted \/ K_Polls(l) < MaxPolls
     /\ K_Set(c, K_LoopTop(c, l))

K_transcriptResponse(c) ==
  LET l == concurrent.locals[c]
  IN /\ l.pc = "fetch"
     /\ \/ LET tr == K_TranscriptResponse
               l2 == [l EXCEPT !.replies = Append(@, "ok")]
           IN K_Set(c, K_Finally(c, l2,
                                 Return(IF revision = "part_003"
                                        THEN R_Result(tr, l.statusResponse, l.warnings)
                                        ELSE M_Result(tr, l.statusResponse, l.warnings))))
        \/ K_Set(c, K_Finally(c, [l EXCEPT !.replies = Append(@, "fail")],
                              Throw(K_Failure("fetch"))))

K_deleteTranscriptionResponse(c) ==
  LET l == concurrent.locals[c]
  IN /\ l.pc = "deleteJob"
     /\ \E resp \in K_DeleteResponses :
          LET r == tryDeleteResource(l.warnings, <<"transcription ", l.transcriptionId>>, resp)
              p == R_Await(R_Alias(l.pending, r.warnings), r)
              l2 == [l EXCEPT !.replies = Append(@, IF DeleteFailed(resp) THEN "fail" ELSE "ok"),
                              !.warnings = r.warnings,
                              !.pending = p]
          IN K_Set(c, K_FinallyFile(c, l2, p))

K_deleteFileResponse(c) ==
  LET l == concurrent.locals[c]
  IN /\ l.pc = "deleteFile"
     /\ \E resp \in K_DeleteResponses :
          LET r == tryDeleteResource(l.warnings, <<"file ", K_fileId(c)>>, resp)
              p == R_Await(R_Alias(l.pending, r.warnings), r)
          IN K_Set(c, [l EXCEPT !.replies = Append(@, IF DeleteFailed(resp) THEN "fail" ELSE "ok"),
                                !.warnings = r.warnings,
                                !.pending = p,
                                !.pc = "done",
                                !.outcome = Settle(p)])

\* the caller aborts the signal it gave to this call
K_Abort(c) ==
  LET l == concurrent.locals[c]
  IN /\ l.pc \in {"upload", "submit", "poll", "delay", "fetch"}
     /\ ~l.aborted
     /\ K_Set(c, [l EXCEPT !.aborted = TRUE])

ConcInit ==
  /\ Init
  /\ config.pollingIntervalMs = <<>>
  /\ providerOptions = [audioUrl |-> Undefined, fileId |-> Undefined,
                        autoDeleteTranscription |-> Undefined, autoDeleteFile |-> Undefined]

ConcNext ==
  \E c \in Calls :
    \/ K_doGenerate(c)
    \/ K_uploadResponse(c)
    \/ K_submitResponse(c)
    \/ K_statusResponse(c)
    \/ K_delay(c)
    \/ K_transcriptResponse(c)
    \/ K_deleteTranscriptionResponse(c)
    \/ K_deleteFileResponse(c)
    \/ K_Abort(c)

ConcSpec == ConcInit /\ [][ConcNext]_vars

(* ====================================================================== *)
(*                               Claims                                   *)
(* ====================================================================== *)
Failed(i) == i <= Len(replies) /\ replies[i] = "fail"
Succeeded(i) == i <= Len(replies) /\ replies[i] = "ok"
AudioUrlGiven == Truthy(providerOptions.audioUrl)
FileIdGiven == Truthy(providerOptions.fileId)
ReturnedError == outcome.kind = "error"
ReturnedResult == outcome.kind = "result"
\* the finally block of part_003 has been entered
InCleanup == pending.kind # "none"

\* C1: on every exit path of doGenerate, a file id returned by the upload has
\* had its DELETE issued by the time the call completes, and so has a job id
\* returned by the submission.
C1_CleanupOnEveryExit ==
  Done =>
    /\ (uploadResponse # Undefined => FileDeletes(uploadResponse) # {})
    /\ (submitResponse.id # Undefined => JobDeletes(submitResponse.id) # {})

\* C1, read on part_003 alone (its finally block): holds there.
C1_CleanupOnEveryExit_part_003 ==
  revision = "part_003" => C1_CleanupOnEveryExit

\* C2: a call whose options carry both audioUrl and fileId issues no request at
\* all and ends with the configuration error.
C2_BothSourcesRejected ==
  (AudioUrlGiven /\ FileIdGiven) =>
    /\ calls = <<>>
    /\ (pc # "start" => Done /\ ReturnedError /\ outcome.error = ConfigError)

\* C2, read on soniox-transcription-model.ts alone: holds there.
C2_BothSourcesRejected_model_ts ==
  revision = "model_ts" => C2_BothSourcesRejected

\* C3: once a status query has returned `error`, no transcript fetch is ever
\* issued, the poll loop is over, and the call fails with the job-failure error
\* whose message ends with the provider's error_message, or with
\* 'Unknown error' when the provider gave none.
C3_JobFailureMessage ==
  IF statusResponse.error_message = Undefined THEN "Unknown error"
  ELSE statusResponse.error_message

C3_JobFailure ==
  statusResponse.status = "error" =>
    /\ TranscriptFetches = {}
    /\ pc \in {"deleteJob", "deleteFile", "done"}
    /\ (InCleanup =>
          /\ pending.kind = "throw"
          /\ pending.error.message = <<"Transcription failed: ", C3_JobFailureMessage>>)
    /\ (Done =>
          /\ ReturnedError
          /\ outcome.error.name \in {"Error", "TranscriptionJobFailed"}
          /\ outcome.error.message = <<"Transcription failed: ", C3_JobFailureMessage>>)

C3_Witness ==
  /\ Done
  /\ statusResponse.status = "error"
  /\ statusResponse.error_message = "Audio is too long"
  /\ outcome.error.message = <<"Transcription failed: ", "Audio is too long">>
  /\ Cardinality(StatusQueries) = 2


\* C4: when the top of a poll iteration finds more than the overall timeout
\* elapsed since polling began (the job still not terminal), the call fails with
\* the timeout error: no further status query and no transcript fetch is issued,
\* and the deletions of the created job and file are still attempted.
TimedOut ==
  pending.kind = "throw" /\ pending.error.name = "TranscriptionJobPollingTimedOut"

C4_LoopTopPastTimeout ==
  (pc = "delay" /\ pc' # "delay" /\ now' - startTime > timeoutMs) =>
    /\ TimedOut'
    /\ StatusQueries' = StatusQueries
    /\ TranscriptFetches' = {}

C4_AfterTimeout ==
  TimedOut =>
    /\ TranscriptFetches = {}
    /\ pc \in {"deleteJob", "deleteFile", "done"}
    /\ (Done =>
          /\ ReturnedError
          /\ outcome.error.name = "TranscriptionJobPollingTimedOut"
          /\ JobDeletes(submitResponse.id) # {}
          /\ FileDeletes(uploadResponse) # {})

C4_Timeout == [][C4_LoopTopPastTimeout]_vars /\ []C4_AfterTimeout

\* C4, read on part_003 alone (its timeout check): holds there.
C4_Timeout_part_003 ==
  [][revision = "part_003" => C4_LoopTopPastTimeout]_vars /\ []C4_AfterTimeout

\* C5: when the transcript fetch succeeded (and so did everything before it),
\* the call returns a result whatever the deletions did, and the result's
\* warning list has one entry per failed deletion: 0, 1 or 2.
FailedDeletes == {i \in Deletes : Failed(i)}

C5_WarningPerFailedDeletion ==
  (Done /\ \E i \in TranscriptFetches : Succeeded(i)) =>
    /\ ReturnedResult
    /\ Len(outcome.result.warnings) = Cardinality(FailedDeletes)
    /\ Cardinality(FailedDeletes) \in 0..2

C5_Witness ==
  /\ Done
  /\ ReturnedResult
  /\ Cardinality(FailedDeletes) = 2
  /\ Len(outcome.result.warnings) = 2

\* C6: a deletion never raises: every failed DELETE (rejected fetch or
\* non-success status) has become one "Failed to auto-delete" warning entry, and
\* what the caller receives is the completion of the try block: the primary
\* error when it threw, never an error of a deletion.
C6_DeletionNeverRaises ==
  /\ Len(warnings) = Cardinality(FailedDeletes)
  /\ \A k \in 1..Len(warnings) :
       warnings[k].type = "other" /\ warnings[k].message[1] = "Failed to auto-delete "
  /\ (InCleanup => pending.error.at # "delete")
  /\ (Done /\ InCleanup =>
        /\ outcome.error.at # "delete"
        /\ (pending.kind = "throw" => ReturnedError /\ outcome.error = pending.error)
        /\ (pending.kind = "return" => ReturnedResult))

C6_Witness ==
  /\ Done
  /\ ReturnedError
  /\ outcome.error.at = "poll"
  /\ Cardinality(FailedDeletes) = 2
  /\ Len(warnings) = 2

\* C7: when cleanup runs with both a job id and a file id held, both DELETEs
\* have been issued by the time the call completes, whatever the first one did.
C7_BothDeletionsAttempted ==
  (Done /\ InCleanup /\ Truthy(transcriptionId) /\ Truthy(fileId)) =>
    /\ JobDeletes(transcriptionId) # {}
    /\ FileDeletes(fileId) # {}

C7_Witness ==
  /\ Done
  /\ \E i \in JobDeletes(transcriptionId) : Failed(i)
  /\ \E j \in FileDeletes(fileId) : Failed(j)

\* C8: autoDeleteTranscription = false means no DELETE of a job is issued,
\* autoDeleteFile = false means no DELETE of a file is issued, and with the
\* option true or left out the deletion of a held id is attempted.
C8_AutoDeleteOptions ==
  /\ (~sonioxOptions.autoDeleteTranscription =>
        \A i \in Deletes : calls[i].path[1] # "/v1/transcriptions")
  /\ (~sonioxOptions.autoDeleteFile =>
        \A i \in Deletes : calls[i].path[1] # "/v1/files")
  /\ (Done /\ sonioxOptions.autoDeleteTranscription /\ submitResponse.id # Undefined =>
        JobDeletes(submitResponse.id) # {})
  /\ (Done /\ sonioxOptions.autoDeleteFile /\ Truthy(fileId) =>
        FileDeletes(fileId) # {})

\* C8, first half only, on part_003: a disabled deletion is issued all the same.
C8_DisabledDeletionNotIssued_part_003 ==
  revision = "part_003" =>
    /\ (~sonioxOptions.autoDeleteTranscription =>
          \A i \in Deletes : calls[i].path[1] # "/v1/transcriptions")
    /\ (~sonioxOptions.autoDeleteFile =>
          \A i \in Deletes : calls[i].path[1] # "/v1/files")

\* C9: with audioUrl given, no upload is issued, the first request is the job
\* submission, and its body carries the URL as audio_url.
C9_AudioUrlSkipsUpload ==
  AudioUrlGiven =>
    /\ Uploads = {}
    /\ (calls # <<>> =>
          /\ IsSubmit(calls[1])
          /\ <<"audio_url", providerOptions.audioUrl>> \in calls[1].body)

\* C9, read on soniox-transcription-model.ts alone: holds there.
C9_AudioUrlSkipsUpload_model_ts ==
  revision = "model_ts" => C9_AudioUrlSkipsUpload

\* C10: with audio bytes and neither audioUrl nor fileId, the upload is issued
\* exactly once, every submission comes after the upload has succeeded, and the
\* submission's file_id is the id that upload returned.
C10_UploadOnceThenSubmit ==
  (~AudioUrlGiven /\ ~FileIdGiven) =>
    /\ (pc # "start" => Cardinality(Uploads) = 1)
    /\ \A i \in Submits :
         /\ \E j \in Uploads : j < i /\ Succeeded(j)
         /\ uploadResponse \in UploadIds
         /\ <<"file_id", uploadResponse>> \in calls[i].body

C10_Witness ==
  /\ Done
  /\ ReturnedResult
  /\ ~AudioUrlGiven /\ ~FileIdGiven
  /\ Submits # {}
  /\ uploadResponse = "file-456"

\* C11: when the caller supplies fileId (and no audioUrl) and does not disable
\* autoDeleteFile, no upload is issued, every submission carries that id as
\* file_id, and by the time the call completes a DELETE of that file has been
\* issued.
C11_CallerFileId ==
  (FileIdGiven /\ ~AudioUrlGiven /\ sonioxOptions.autoDeleteFile) =>
    /\ Uploads = {}
    /\ \A i \in Submits : <<"file_id", providerOptions.fileId>> \in calls[i].body
    /\ (Done => FileDeletes(providerOptions.fileId) # {})

\* C11, without the deletion, on soniox-transcription-model.ts: the caller's
\* file is used and nothing is uploaded there.
C11_CallerFileIdUsed_model_ts ==
  (revision = "model_ts" /\ FileIdGiven /\ ~AudioUrlGiven) =>
    /\ Uploads = {}
    /\ \A i \in Submits : <<"file_id", providerOptions.fileId>> \in calls[i].body

\* C11, the deletion alone, on soniox-transcription-model.ts: never issued.
C11_CallerFileDeleted_model_ts ==
  (revision = "model_ts" /\ FileIdGiven /\ ~AudioUrlGiven /\ Done) =>
    FileDeletes(providerOptions.fileId) # {}

\* C12: when the cancellation signal is set as a poll iteration begins, that
\* iteration issues no status query and the call takes the cancellation error;
\* from then on no status query or transcript fetch is issued, and when the
\* error reaches the caller the DELETEs of the created job and of the uploaded
\* file have been issued.
LoopTopStep ==
  \/ pc = "submit" /\ submitResponse'.id # Undefined
  \/ pc = "delay" /\ pc' # "delay"

Cancelled == pending.error = AbortedError \/ outcome.error = AbortedError

C12_LoopTopCancelled ==
  (aborted /\ LoopTopStep) =>
    /\ StatusQueries' = StatusQueries
    /\ TranscriptFetches' = {}
    /\ Cancelled'

C12_AfterCancellation ==
  Cancelled =>
    /\ pc \in {"deleteJob", "deleteFile", "done"}
    /\ TranscriptFetches = {}
    /\ (Done =>
          /\ ReturnedError
          /\ outcome.error = AbortedError
          /\ JobDeletes(submitResponse.id) # {}
          /\ (uploadResponse # Undefined => FileDeletes(uploadResponse) # {}))

C12_Cancellation ==
  /\ [][C12_LoopTopCancelled /\ (Cancelled => StatusQueries' = StatusQueries)]_vars
  /\ []C12_AfterCancellation

\* C12 on part_003 alone: violated only where the timeout has also elapsed,
\* because the timeout check comes first at the top of the loop.
C12_Cancellation_part_003 ==
  /\ [][revision = "part_003" =>
          C12_LoopTopCancelled /\ (Cancelled => StatusQueries' = StatusQueries)]_vars
  /\ [](revision = "part_003" => C12_AfterCancellation)

\* C12 on part_003 alone, for iterations that begin within the timeout: holds.
C12_Cancellation_part_003_withinTimeout ==
  /\ [][(revision = "part_003" /\ now' - startTime' <= timeoutMs) =>
          C12_LoopTopCancelled /\ (Cancelled => StatusQueries' = StatusQueries)]_vars
  /\ [](revision = "part_003" => C12_AfterCancellation)

\* C12, the loop-top part alone, on soniox-transcription-model.ts: holds; what
\* is missing there is the deletions.
C12_LoopTopCancelled_model_ts ==
  [][revision = "model_ts" => C12_LoopTopCancelled]_vars

\* C13: a call that has completed has exactly one outcome, a result or an
\* error, and a call that has not completed has none; the outcome never changes
\* once given; an error carries no warnings, whatever the deletions did: the
\* warnings reach the caller only inside a returned result.
C13_OneOutcome ==
  /\ outcome.kind \in {"pending", "result", "error"}
  /\ (Done <=> outcome.kind # "pending")
  /\ (ReturnedResult => outcome.error = NoError /\ outcome.result.warnings = warnings)
  /\ (ReturnedError => outcome.error # NoError /\ outcome.result = NoResult)

C13_ExactlyOneOutcome ==
  /\ []C13_OneOutcome
  /\ [][outcome.kind # "pending" => outcome' = outcome]_vars

C13_Witness ==
  /\ Done
  /\ ReturnedError
  /\ warnings # <<>>
  /\ outcome.result = NoResult

\* C14: the result's segments are the tokens that have both start_ms and
\* end_ms, in the order of the token sequence, each with the token's text,
\* startSecond = start_ms / 1000 and endSecond = end_ms / 1000.
TimedIndexes(tokens) ==
  {i \in 1..Len(tokens) : tokens[i].start_ms # <<>> /\ tokens[i].end_ms # <<>>}

\* the j-th token, in sequence order, among those with both times
NthTimed(tokens, j) ==
  CHOOSE i \in TimedIndexes(tokens) :
    Cardinality({k \in TimedIndexes(tokens) : k < i}) = j - 1

C14_Segments ==
  ReturnedResult =>
    LET tokens == tokensOf(transcriptResponse)
        segments == outcome.result.segments
    IN /\ Len(segments) = Cardinality(TimedIndexes(tokens))
       /\ \A j \in 1..Len(segments) :
            LET token == tokens[NthTimed(tokens, j)]
            IN segments[j] = [text |-> token.text,
                              startSecond |-> <<token.start_ms[1], 1000>>,
                              endSecond |-> <<token.end_ms[1], 1000>>]

C14_Witness ==
  /\ ReturnedResult
  /\ Len(tokensOf(transcriptResponse)) = 3
  /\ tokensOf(transcriptResponse)[2].start_ms = <<>>
  /\ Len(outcome.result.segments) = 2
  /\ outcome.result.segments[1].text = "lo"
  /\ outcome.result.segments[2].startSecond = <<0, 1000>>

\* C15: the result's language is the non-empty tag with the most occurrences
\* among the tokens, the one occurring first among those with the highest
\* count, and undefined when no token has a non-empty tag.
LanguagesOf(tokens) ==
  {tokens[i].language : i \in 1..Len(tokens)} \ {Undefined, ""}

Occurrences(tokens, tag) ==
  Cardinality({i \in 1..Len(tokens) : tokens[i].language = tag})

FirstOccurrence(tokens, tag) ==
  CHOOSE i \in 1..Len(tokens) :
    tokens[i].language = tag /\ \A k \in 1..(i - 1) : tokens[k].language # tag

PrimaryLanguage(tokens) ==
  IF LanguagesOf(tokens) = {} THEN Undefined
  ELSE CHOOSE tag \in LanguagesOf(tokens) :
         \A other \in LanguagesOf(tokens) \ {tag} :
           \/ Occurrences(tokens, tag) > Occurrences(tokens, other)
           \/ /\ Occurrences(tokens, tag) = Occurrences(tokens, other)
              /\ FirstOccurrence(tokens, tag) < FirstOccurrence(tokens, other)

C15_Language ==
  ReturnedResult =>
    outcome.result.language = PrimaryLanguage(tokensOf(transcriptResponse))

\* C15, read on part_003 alone (getLanguageFromTokens): holds there.
C15_Language_part_003 ==
  revision = "part_003" => C15_Language

\* C16: the message of the error built from a failure payload is the payload's
\* message when it has one, else its error_type when it has one, else
\* 'Soniox API error'.
C16_ErrorMessage ==
  (ReturnedError /\ outcome.error.name = "APICallError") =>
    LET data == outcome.error.data
    IN outcome.error.message =
         << IF data.message # Undefined THEN data.message
            ELSE IF data.error_type # Undefined THEN data.error_type
            ELSE "Soniox API error" >>

C16_Witness ==
  /\ ReturnedError
  /\ outcome.error.data.message = Undefined
  /\ outcome.error.data.error_type = "invalid_request"
  /\ outcome.error.message = <<"invalid_request">>

\* C17: when every network call and delay returns, every call completes: a
\* status query is issued only while no more than the hard timeout has elapsed
\* since polling began, so a job that never leaves a non-terminal status cannot
\* keep the loop running.
C17_PollOnlyWithinTimeout ==
  StatusQueries' # StatusQueries => now' - startTime' <= timeoutMs

C17_Terminates ==
  /\ [][C17_PollOnlyWithinTimeout]_vars
  /\ <>Done

\* C17, read on part_003 alone (its timeout check): holds there.
C17_Terminates_part_003 ==
  /\ [][revision = "part_003" => C17_PollOnlyWithinTimeout]_vars
  /\ (revision = "part_003" ~> Done)

\* a job that stayed non-terminal through every status query, ended by the timeout
C17_Witness_part_003 ==
  /\ Done
  /\ TimedOut
  /\ statusResponse.status = "queued"
  /\ Cardinality(StatusQueries) = MaxPolls

\* C18: the poll loop follows the last returned status.  A status other than
\* `completed` and `error` sends the call into the delay without a request;
\* the delay lasts one polling interval and is followed by the next status
\* query (when the iteration is not ended by the cancellation or timeout
\* check).  A transcript fetch is issued at most once and only right after a
\* status query that returned `completed`; once `completed` or `error` has been
\* returned no status query is issued.
Terminal(status) == status \in {"completed", "error"}

ExpectedInterval ==
  IF config.pollingIntervalMs = <<>> THEN 1000 ELSE config.pollingIntervalMs[1]

StatusAnswered ==
  /\ pc = "poll"
  /\ Len(replies') = Len(replies) + 1
  /\ replies'[Len(replies')] = "ok"

C18_NonTerminalDelays ==
  (StatusAnswered /\ ~Terminal(statusResponse'.status)) =>
    pc' = "delay" /\ calls' = calls /\ outcome' = outcome

C18_DelayThenQuery ==
  (pc = "delay" /\ pc' # "delay") =>
    /\ now' = now + ExpectedInterval
    /\ (~aborted /\ now' - startTime <= timeoutMs =>
          pc' = "poll" /\ calls' = Append(calls, StatusRequest(submitResponse.id)))

C18_NoQueryAfterTerminal ==
  Terminal(statusResponse.status) => StatusQueries' = StatusQueries

C18_FetchAfterCompleted ==
  /\ Cardinality(TranscriptFetches) <= 1
  /\ \A i \in TranscriptFetches :
       /\ statusResponse.status = "completed"
       /\ (i - 1) \in StatusQueries /\ Succeeded(i - 1)
  /\ (Terminal(statusResponse.status) => ~Polling)
  /\ (statusResponse.status = "completed" => TranscriptFetches # {})

C18_PollStateMachine ==
  /\ [][C18_NonTerminalDelays /\ C18_DelayThenQuery /\ C18_NoQueryAfterTerminal]_vars
  /\ []C18_FetchAfterCompleted

C18_Witness ==
  /\ pc = "fetch"
  /\ Cardinality(StatusQueries) = 2
  /\ config.pollingIntervalMs = <<>>
  /\ now = 1000
  /\ statusResponse.status = "completed"

\* C19: the requests of a call are issued in the order upload, submit, status
\* queries, transcript fetch, deletions; a request is issued only when every
\* earlier one has been answered, so at most one is in flight and no DELETE is
\* issued while an earlier request is outstanding.
Phase(c) ==
  IF IsUpload(c) THEN 1 ELSE IF IsSubmit(c) THEN 2 ELSE IF IsStatus(c) THEN 3
  ELSE IF IsTranscript(c) THEN 4 ELSE 5

C19_InOrder ==
  /\ Len(calls) - Len(replies) \in {0, 1}
  /\ \A i, j \in 1..Len(calls) : i < j => Phase(calls[i]) <= Phase(calls[j])

C19_OneAtATime ==
  calls' # calls => Len(calls') = Len(calls) + 1 /\ Len(replies') = Len(calls)

C19_Sequential == []C19_InOrder /\ [][C19_OneAtATime]_vars

C19_Witness ==
  /\ Done
  /\ Len(calls) = 7
  /\ Len(replies) = 7
  /\ IsUpload(calls[1]) /\ IsDelete(calls[6]) /\ IsDelete(calls[7])

\* C20: nothing is retried: the upload, the submission, the transcript fetch,
\* the job deletion and the file deletion are each issued at most once; after a
\* failed upload, submission, status query or fetch the only requests that
\* follow are deletions, and the call ends with that failure.
JobDeleteCalls == {i \in Deletes : calls[i].path[1] = "/v1/transcriptions"}
FileDeleteCalls == {i \in Deletes : calls[i].path[1] = "/v1/files"}

C20_NoRetry ==
  /\ Cardinality(Uploads) <= 1
  /\ Cardinality(Submits) <= 1
  /\ Cardinality(TranscriptFetches) <= 1
  /\ Cardinality(JobDeleteCalls) <= 1
  /\ Cardinality(FileDeleteCalls) <= 1
  /\ \A i \in 1..Len(calls) :
       (Failed(i) /\ ~IsDelete(calls[i])) =>
         /\ \A j \in (i + 1)..Len(calls) : IsDelete(calls[j])
         /\ pc \in {"deleteJob", "deleteFile", "done"}
         /\ (Done => ReturnedError /\ outcome.error.name \in {"APICallError", "AbortError"})

C20_Witness ==
  /\ Done
  /\ Cardinality(StatusQueries) = 2
  /\ \E i \in StatusQueries : Failed(i)
  /\ Cardinality(Deletes) = 2
  /\ outcome.error.at = "poll"

\* C21: a fatal failure stops the pipeline: after a failed upload there is no
\* submission, status query or transcript fetch; after a failed submission no
\* status query or transcript fetch; a failed transcript fetch is the error the
\* call raises; in each case the only requests that follow are deletions.
FailedAt(indexes) == \E i \in indexes : Failed(i)

RaisedAt(at) ==
  /\ pc \in {"deleteJob", "deleteFile", "done"}
  /\ (InCleanup => pending.kind = "throw" /\ pending.error.at = at)
  /\ (Done => ReturnedError /\ outcome.error.at = at)

C21_FatalStopsPipeline ==
  /\ (FailedAt(Uploads) =>
        Submits = {} /\ StatusQueries = {} /\ TranscriptFetches = {} /\ RaisedAt("upload"))
  /\ (FailedAt(Submits) =>
        StatusQueries = {} /\ TranscriptFetches = {} /\ RaisedAt("submit"))
  /\ (FailedAt(TranscriptFetches) => RaisedAt("fetch"))
  /\ \A i \in Uploads \cup Submits \cup TranscriptFetches :
       Failed(i) => \A j \in (i + 1)..Len(calls) : IsDelete(calls[j])

C21_Witness ==
  /\ Done
  /\ FailedAt(TranscriptFetches)
  /\ Cardinality(Deletes) = 2
  /\ outcome.error.at = "fetch"
  /\ outcome.error.name = "APICallError"

\* C22: every job creation request names exactly one audio source: exactly
\* one of the keys audio_url and file_id is in its body, whatever the caller
\* gave as audioUrl and fileId (nothing, an empty string, or a value).
HasKey(body, key) == \E kv \in body : kv[1] = key

C22_OneAudioSource ==
  \A i \in Submits :
    HasKey(calls[i].body, "audio_url") # HasKey(calls[i].body, "file_id")

\* C22, read on part_003 alone (file_id only): holds there.
C22_OneAudioSource_part_003 ==
  revision = "part_003" => C22_OneAudioSource

\* C22 on soniox-transcription-model.ts for options that are absent or set,
\* never an empty string: holds.
C22_OneAudioSource_model_ts_nonEmpty ==
  (revision = "model_ts" /\ providerOptions.audioUrl # "" /\ providerOptions.fileId # "")
    => C22_OneAudioSource

\* C23: the durationInSeconds of a result is audio_duration_ms / 1000 of the
\* status response that reported `completed`, the last one received, and
\* undefined when that response has no audio_duration_ms.
C23_Duration ==
  ReturnedResult =>
    /\ statusResponse.status = "completed"
    /\ (statusResponse.audio_duration_ms = <<>> =>
          outcome.result.durationInSeconds = <<>>)
    /\ (statusResponse.audio_duration_ms # <<>> =>
          outcome.result.durationInSeconds = <<statusResponse.audio_duration_ms[1], 1000>>)

C23_Witness ==
  /\ ReturnedResult
  /\ Cardinality(StatusQueries) = 2
  /\ submitResponse.status = "error"
  /\ outcome.result.durationInSeconds = <<16079, 1000>>

C23_Witness_undefined ==
  /\ ReturnedResult
  /\ Cardinality(StatusQueries) = 2
  /\ outcome.result.durationInSeconds = <<>>

\* C24: the raw token list of a result is the fetched token sequence itself:
\* same length, same tokens at the same positions, the tokens left out of the
\* segments included.
C24_RawTokens ==
  ReturnedResult =>
    LET fetched == IF transcriptResponse.tokens = <<>> THEN <<>>
                   ELSE transcriptResponse.tokens[1]
    IN /\ Len(outcome.result.tokens) = Len(fetched)
       /\ \A i \in 1..Len(fetched) : outcome.result.tokens[i] = fetched[i]

C24_Witness ==
  /\ ReturnedResult
  /\ Len(outcome.result.tokens) = 3
  /\ Len(outcome.result.segments) = 1
  /\ outcome.result.tokens[1].start_ms = <<>>
  /\ outcome.result.tokens[3].end_ms = <<>>

\* C25: a fetched transcript with absent or empty text, or an absent or empty
\* token list, is no error: the call returns a result, with text '' in the
\* first case, and with no segments, no raw tokens and an undefined language
\* in the second.
FetchSucceeded == \E i \in TranscriptFetches : Succeeded(i)

C25_EmptyTranscript ==
  (Done /\ FetchSucceeded) =>
    /\ ReturnedResult
    /\ (transcriptResponse.text \in {Undefined, ""} => outcome.result.text = "")
    /\ (transcriptResponse.tokens \in {<<>>, << <<>> >>} =>
          /\ outcome.result.segments = <<>>
          /\ outcome.result.tokens = <<>>
          /\ outcome.result.language = Undefined)

C25_Witness ==
  /\ Done
  /\ FetchSucceeded
  /\ ReturnedResult
  /\ transcriptResponse.text = Undefined
  /\ transcriptResponse.tokens = <<>>
  /\ outcome.result.text = ""

\* C27: when the job is backed by the caller's audioUrl, the call creates no
\* remote file (no upload) and issues no DELETE of a file.
C27_AudioUrlNoFile ==
  (AudioUrlGiven /\ ~FileIdGiven) =>
    /\ Uploads = {}
    /\ FileDeleteCalls = {}

\* C27, read on soniox-transcription-model.ts alone: holds there.
C27_AudioUrlNoFile_model_ts ==
  revision = "model_ts" => C27_AudioUrlNoFile

\* C28: a timeout error carries, as its cause, the status record returned by
\* the most recent status query of the call.
C28_TimeoutCause ==
  TimedOut =>
    /\ \E i \in StatusQueries : Succeeded(i)
    /\ statusResponse # NoStatus
    /\ pending.error.cause = statusResponse
    /\ (Done => outcome.error.cause = statusResponse)

C28_Witness ==
  /\ Done
  /\ TimedOut
  /\ outcome.error.name = "TranscriptionJobPollingTimedOut"
  /\ outcome.error.cause.status = "provider_defined"

\* C29: the status in the creation response drives nothing: whatever it is,
\* the step that receives the creation response issues a status query (unless
\* cancelled), and a transcript fetch or a job-failure error only comes after
\* a status query has been answered.
IsJobFailure(e) == Len(e.message) = 2 /\ e.message[1] = "Transcription failed: "

C29_QueryFirst ==
  (pc = "submit" /\ submitResponse'.id # Undefined /\ ~aborted) =>
    /\ pc' = "poll"
    /\ calls' = Append(calls, StatusRequest(submitResponse'.id))

C29_AfterStatusQuery ==
  /\ \A i \in TranscriptFetches : \E j \in StatusQueries : j < i /\ Succeeded(j)
  /\ (IsJobFailure(pending.error) \/ IsJobFailure(outcome.error) =>
        \E j \in StatusQueries : Succeeded(j))

C29_InitialStatusIgnored == [][C29_QueryFirst]_vars /\ []C29_AfterStatusQuery

C29_Witness ==
  /\ Done
  /\ submitResponse.status = "completed"
  /\ ReturnedError
  /\ IsJobFailure(outcome.error)

\* C30: cleanup names only identifiers the call holds: a job is deleted only
\* after a successful submission and under the id it returned; a file only
\* under the id of a successful upload or the caller's fileId; after a failed
\* upload there is no DELETE, and after a failed submission that followed a
\* successful upload the only DELETE is the file's.
C30_CleanupTargets ==
  /\ \A i \in JobDeleteCalls :
       /\ \E j \in Submits : j < i /\ Succeeded(j)
       /\ calls[i].path = <<"/v1/transcriptions", submitResponse.id>>
  /\ \A i \in FileDeleteCalls :
       \/ /\ \E j \in Uploads : j < i /\ Succeeded(j)
          /\ calls[i].path = <<"/v1/files", uploadResponse>>
       \/ /\ FileIdGiven
          /\ calls[i].path = <<"/v1/files", providerOptions.fileId>>
  /\ (FailedAt(Uploads) => Deletes = {})
  /\ (FailedAt(Submits) =>
        /\ JobDeleteCalls = {}
        /\ \A i \in Deletes : IsDeleteFile(calls[i], uploadResponse))

C30_Witness ==
  /\ Done
  /\ FailedAt(Submits)
  /\ Cardinality(Deletes) = 1
  /\ FileDeletes(uploadResponse) # {}

C30_Witness_uploadFailed ==
  /\ Done
  /\ revision = "part_003"
  /\ FailedAt(Uploads)
  /\ Deletes = {}

\* C26: when calls of doGenerate run at the same time on one model, every
\* status query, transcript fetch and DELETE a call issues names an id the
\* service returned to that call, and the call's warnings are exactly those of
\* its own failed deletions, each naming one of its own ids.
K_Own(c) == {h[2] : h \in {x \in concurrent.handed : x[1] = c}}

K_FailedDeletes(l) ==
  {i \in DOMAIN l.replies : IsDelete(l.calls[i]) /\ l.replies[i] = "fail"}

C26_OwnIdsOnly ==
  \A c \in Calls :
    LET l == concurrent.locals[c]
    IN /\ \A i \in DOMAIN l.calls :
            (IsStatus(l.calls[i]) \/ IsTranscript(l.calls[i]) \/ IsDelete(l.calls[i]))
              => l.calls[i].path[2] \in K_Own(c)
       /\ \A j \in DOMAIN l.warnings : l.warnings[j].message[3] \in K_Own(c)
       /\ Len(l.warnings) = Cardinality(K_FailedDeletes(l))
       /\ l.outcome.kind = "result" => l.outcome.result.warnings = l.warnings
       /\ \A d \in Calls \ {c} : K_Own(c) \cap K_Own(d) = {}

\* both calls are suspended in their cleanup at once, each with the warning of
\* its own job's failed deletion
C26_Witness ==
  \A c \in Calls :
    /\ concurrent.locals[c].pc = "deleteFile"
    /\ Len(concurrent.locals[c].warnings) = 1
    /\ Cardinality(K_Own(c)) = 2

\* both calls have returned, each with the two warnings of its own deletions
C26_Witness_returned ==
  \A c \in Calls :
    /\ concurrent.locals[c].outcome.kind = "result"
    /\ Len(concurrent.locals[c].outcome.result.warnings) = 2

\* C31: the caller receives the outcome of a call, result or error, only after
\* every deletion attempt of the call has finished: once the outcome is
\* delivered every DELETE the call issued has been answered, and the call
\* issues no request afterwards.
Delivered == outcome.kind # "pending"

Answered(i) == i <= Len(replies)

C31_NoPendingDelete == Delivered => \A i \in Deletes : Answered(i)

C31_NothingAfterOutcome == Delivered => calls' = calls /\ replies' = replies

C31_OutcomeAfterDeletions == []C31_NoPendingDelete /\ [][C31_NothingAfterOutcome]_vars

\* part_003: the deletions that are due, one per id the call holds, have all
\* been answered when the outcome is delivered
C31_DueDeletionsAnswered_part_003 ==
  (revision = "part_003" /\ Delivered)
    => /\ Truthy(transcriptionId)
            => \E i \in JobDeletes(transcriptionId) : Answered(i)
       /\ Truthy(fileId) => \E i \in FileDeletes(fileId) : Answered(i)

\* a call has delivered its outcome after both of its deletions were answered,
\* one of them with a failure
C31_Witness ==
  /\ Delivered
  /\ Cardinality(Deletes) = 2
  /\ \A i \in Deletes : Answered(i)
  /\ FailedDeletes # {}

\* the same for a call that ends with an error
C31_Witness_error ==
  /\ ReturnedError
  /\ Cardinality(Deletes) = 2
  /\ \A i \in Deletes : Answered(i)

====
